---- MODULE Spec2Model ----
(***************************************************************************)
(* Model of the conversation orchestration engine of jarvis_logic.py:      *)
(* the persisted chat history (load_history / save_history /               *)
(* clear_history), the marker detection (detect_tool_usage, the SEARCH     *)
(* pattern), the tool registry (execute_system_tool), the pre-emptive      *)
(* search detection (should_auto_search) and the turn loop (askAI).        *)
(*                                                                         *)
(* Texts are sequences of strings.  A user input is its sequence of words; *)
(* a model response is the list of TOOL(...) markers and the list of       *)
(* SEARCH(...) markers its text contains, in textual order, plus a name    *)
(* for the text itself.  The outcome of the external calls (ollama.chat,   *)
(* web_search) is chosen by the environment.  Reads and writes of the     *)
(* history and configuration files do not fail for reasons of the file     *)
(* system (a missing or unparseable file is a state of the file).          *)
(*                                                                         *)
(* Spec and LiveSpec are the command-line loop with the default            *)
(* configuration already loaded; the other specifications vary one part    *)
(* of the environment each and keep the rest small.                        *)
(***************************************************************************)
EXTENDS Integers, Sequences, FiniteSets, TLC

\* ------------------------------------------------------------- bounds ----
\* Number of turns submitted in one behaviour.
MaxTurns == 2
\* Number of tool rounds of one turn that are recorded exactly.  The backend of
\* Spec requests at most this many tools per turn.  The backend of LiveSpec is
\* unrestricted: tool rounds beyond the bound still run, but they no longer
\* extend the working transcript or the call log (toolRounds stays at
\* MaxToolRounds + 1), which keeps the state space finite.
MaxToolRounds == 1
\* writes of config.yaml (edits by the user, save_config) in one run
MaxConfigWrites == 2
\* largest value of the retries argument of web_search
MaxRetriesArg == 4

\* MAX_SEARCH_RETRIES, the default of the retries argument
MAX_SEARCH_RETRIES == 3

\* ---------------------------------------------------- program constants ----
\* save_history: "if len(history) > 31"
HistoryCap == 31
\* save_history: "history[-30:]"
KeepLast == 30
\* askAI: "max_search_attempts = 2"
max_search_attempts == 2

Workers == {"w1", "w2"}
\* The command-line loop and the GUI with its input disabled run one turn at
\* a time: the sequential specification uses one worker.
SeqWorkers == {"w1"}

None == "<None>"
NoText == <<>>

\* ------------------------------------------------------------ messages ----
Msg(role, content) == [role |-> role, content |-> content]

\* DEFAULT_CONFIG["rules"], the content of the System message
Rules == <<"You are JARVIS">>

SystemMessage == Msg("system", Rules)

\* ------------------------------------------------------- configuration ----
\* A configuration value: what yaml.safe_load returned, or None.
NoConfig == [kind |-> "none", rules |-> NoText]
DEFAULT_CONFIG == [kind |-> "mapping", rules |-> Rules]
\* a config.yaml with rules of the user's own
CustomConfig == [kind |-> "mapping", rules |-> <<"custom rules">>]
\* a config.yaml that parses to a non-empty YAML list
ListDocument == [kind |-> "list", rules |-> NoText]

\* has a .get method
IsMapping(config) == config.kind = "mapping"
\* Python truth value: None is false, a non-empty mapping or list is true
Truthy(config) == config.kind \in {"mapping", "list"}

\* config.yaml: missing, unparseable, or a document; mtime counts its writes
ConfigFile(state, data, mtime) == [state |-> state, data |-> data, mtime |-> mtime]

\* _config_last_modified = None
NeverModified == -1

\* The configuration state: the file and the two module-level cache variables.
ConfigState(file, cache, last) == [file |-> file, cache |-> cache, last |-> last]

\* load_config returning a true cache without the modification-time test
load_config_ignores_mtime(st) ==
    IF st.file.state = "missing"
    THEN LET written == ConfigFile("document", DEFAULT_CONFIG, st.file.mtime + 1)
         IN  [ret |-> DEFAULT_CONFIG,
              st |-> ConfigState(written, DEFAULT_CONFIG, written.mtime)]
    ELSE IF Truthy(st.cache)
    THEN [ret |-> st.cache, st |-> st]
    ELSE IF st.file.state = "unparseable"
    THEN [ret |-> DEFAULT_CONFIG, st |-> st]
    ELSE [ret |-> IF IsMapping(st.file.data) THEN st.file.data ELSE DEFAULT_CONFIG,
          st |-> ConfigState(st.file, st.file.data, st.file.mtime)]

\* load_config in configuration state st: the value returned and the state
\* left.  A missing file is written with the defaults (save_config); a cache
\* that is true and as old as the file is returned; an unparseable file
\* raises inside the try and gives the defaults; a document is cached before
\* the print that calls config.get, which raises for a non-mapping and gives
\* the defaults.
load_config(st) ==
    IF st.file.state = "missing"
    THEN LET written == ConfigFile("document", DEFAULT_CONFIG, st.file.mtime + 1)
         IN  [ret |-> DEFAULT_CONFIG,
              st |-> ConfigState(written, DEFAULT_CONFIG, written.mtime)]
    ELSE IF Truthy(st.cache) /\ st.last = st.file.mtime
    THEN [ret |-> st.cache, st |-> st]
    ELSE IF st.file.state = "unparseable"
    THEN [ret |-> DEFAULT_CONFIG, st |-> st]
    ELSE [ret |-> IF IsMapping(st.file.data) THEN st.file.data ELSE DEFAULT_CONFIG,
          st |-> ConfigState(st.file, st.file.data, st.file.mtime)]

\* ------------------------------------------------------- history store ----
\* The history file: missing, unparseable, or a JSON list of messages.
FileMissing == [state |-> "missing", data |-> <<>>]
FileCorrupt == [state |-> "corrupt", data |-> <<>>]
FileList(h) == [state |-> "list", data |-> h]

\* Python's history[-n:]
LastN(h, n) == IF Len(h) <= n THEN h ELSE SubSeq(h, Len(h) - n + 1, Len(h))

\* save_history without the truncation
save_history_uncapped(history) == FileList(history)

\* save_history keeping history[-31:], the System message not set apart
save_history_tail_only(history) ==
    FileList(IF Len(history) > HistoryCap THEN LastN(history, HistoryCap) ELSE history)

\* save_history keeping the System message and the last 29 messages
save_history_keeps_odd_tail(history) ==
    FileList(IF Len(history) > HistoryCap
             THEN <<history[1]>> \o LastN(history, KeepLast - 1)
             ELSE history)

save_history(history) ==
    FileList(IF Len(history) > HistoryCap
             THEN <<history[1]>> \o LastN(history, KeepLast)
             ELSE history)

\* ---------------------------------------------------------------- state ----
VARIABLES
    OLLAMA_AVAILABLE,      \* module flag set by "import ollama"
    WEB_SEARCH_AVAILABLE,  \* module flag set by "from duckduckgo_search import DDGS"
    HISTORY_FILE,          \* content of chat_history.json
    pc,                    \* position of each worker in askAI
    user_input,            \* askAI: parameter
    history,               \* askAI: local "history"
    temp_history,          \* askAI: local "temp_history" (the working transcript)
    search_count,          \* askAI: local "search_count"
    response,              \* askAI: the reply of the pending ollama.chat call
    result,                \* askAI: the returned text
    loaded,                \* what load_history returned at the start of the turn
    calls,                 \* log of the external calls of the turn, in order
    toolRounds,            \* number of tool rounds of the turn
    turns,                 \* number of turns submitted so far
    CONFIG_FILE,           \* content and modification time of config.yaml
    config_cache,          \* module global _config_cache
    config_last_modified,  \* module global _config_last_modified
    ws,                    \* the frame of a web_search call
    input_state,           \* GUI: state of input_entry and send_button
    stream_enabled,        \* GUI: the streaming checkbox
    streaming,             \* process_input: parameter stream_enabled
    stream_queue,          \* GUI: stream_queue
    after_calls,           \* GUI: callbacks scheduled with root.after(0, ...)
    chat_display,          \* GUI: text of the chat window
    seen,                  \* history variable: the finished turns of the window
    committed              \* history variable: the pairs committed since the
                           \* last clear, in commit order, with their workers

vars ==
    <<OLLAMA_AVAILABLE, WEB_SEARCH_AVAILABLE, HISTORY_FILE, pc, user_input,
      history, temp_history, search_count, response, result, loaded, calls,
      toolRounds, turns, CONFIG_FILE, config_cache, config_last_modified, ws,
      input_state, stream_enabled, streaming, stream_queue, after_calls,
      chat_display, seen, committed>>

flags == <<OLLAMA_AVAILABLE, WEB_SEARCH_AVAILABLE>>

\* the state of the window
guivars ==
    <<input_state, stream_enabled, streaming, stream_queue, after_calls,
      chat_display, seen>>

cfgvars == <<CONFIG_FILE, config_cache, config_last_modified>>

\* the configuration state of the process now
CurrentConfig == ConfigState(CONFIG_FILE, config_cache, config_last_modified)

\* config.get("rules", DEFAULT_CONFIG["rules"]) of the configuration that
\* load_config returns now
ConfiguredRules == load_config(CurrentConfig).ret.rules
ConfiguredSystemMessage == Msg("system", ConfiguredRules)


\* ---------------------------------------------------------- load_history ----
\* load_history inserting the System message without looking at history[0]
load_history_always_inserts(file) ==
    IF file.state = "list"
    THEN <<ConfiguredSystemMessage>> \o file.data
    ELSE <<ConfiguredSystemMessage>>

\* load_history keeping only the System message of a stored transcript
load_history_forgets_messages(file) ==
    IF file.state = "list"
    THEN IF file.data = <<>> \/ file.data[1].role # "system"
         THEN <<ConfiguredSystemMessage>> \o file.data
         ELSE <<file.data[1]>>
    ELSE <<ConfiguredSystemMessage>>

load_history(file) ==
    IF file.state = "list"
    THEN IF file.data = <<>> \/ file.data[1].role # "system"
         THEN <<ConfiguredSystemMessage>> \o file.data
         ELSE file.data
    ELSE <<ConfiguredSystemMessage>>

\* load_history reaches a load_config call: the file is missing, corrupt,
\* empty or does not start with a System message
NeedsRules(file) ==
    \/ file.state # "list"
    \/ file.data = <<>>
    \/ file.data[1].role # "system"

\* The configuration side of load_history called in configuration state st:
\* the state left, and whether config.get raised (the configuration returned
\* is not a mapping; the except clause leads to the second load_config and
\* config.get, outside the try).
load_history_config(file, st) ==
    IF NeedsRules(file)
    THEN LET c == load_config(st)
         IN  [raised |-> ~IsMapping(c.ret), st |-> c.st]
    ELSE [raised |-> FALSE, st |-> st]

\* ----------------------------------------------------------- tool registry ----
ToolCall(name, args) == [name |-> name, args |-> args]

\* Expressions given to the calculate tool, by what Python's eval does with
\* them under empty builtins.
EvalRaises == {"1/0", "import os", "abs(1)"}

\* str(eval(args, {"__builtins__": {}}, {})) for the expressions that evaluate
EvalValue(args) ==
    CASE args = "2+2" -> "4"
      [] args = "[1,2]" -> "[1, 2]"
      [] args = "(1,2)" -> "(1, 2)"
      [] args = "1 if 2 else 3" -> "1"
      [] args = "(1).real" -> "1"
      [] args = "1<2" -> "True"
      [] OTHER -> args

execute_system_tool(tool_name, args) ==
    IF tool_name \in {"time", "get_time", "current_time"} THEN <<TRUE, "HH:MM:SS">>
    ELSE IF tool_name \in {"date", "get_date", "current_date"} THEN <<TRUE, "YYYY-MM-DD">>
    ELSE IF tool_name \in {"datetime", "get_datetime"} THEN <<TRUE, "YYYY-MM-DD HH:MM:SS">>
    ELSE IF tool_name \in {"day", "weekday", "day_of_week"} THEN <<TRUE, "weekday">>
    ELSE IF tool_name \in {"timestamp", "unix_time"} THEN <<TRUE, "unix time">>
    ELSE IF tool_name \in {"year"} THEN <<TRUE, "year">>
    ELSE IF tool_name \in {"month"} THEN <<TRUE, "month">>
    ELSE IF tool_name \in {"calculate", "calc", "math"}
         THEN IF args # None
              THEN IF args \in EvalRaises
                   THEN <<FALSE, "Invalid calculation">>
                   ELSE <<TRUE, EvalValue(args)>>
              ELSE <<FALSE, "No expression provided">>
    ELSE IF tool_name \in {"system", "os", "platform"} THEN <<TRUE, "platform">>
    ELSE IF tool_name \in {"python_version"} THEN <<TRUE, "python version">>
    ELSE <<FALSE, "Unknown tool">>

\* ------------------------------------------------------ model responses ----
Response(text, tools, searches) ==
    [text |-> text, tools |-> tools, searches |-> searches, raises |-> FALSE]

\* ollama.chat raising instead of answering
ChatRaises == [text |-> "error", tools |-> <<>>, searches |-> <<>>, raises |-> TRUE]

NoResponse == [text |-> None, tools |-> <<>>, searches |-> <<>>, raises |-> FALSE]

Responses ==
    { Response("plain answer", <<>>, <<>>),
      Response("TOOL time", <<ToolCall("time", None)>>, <<>>),
      Response("TOOL bogus", <<ToolCall("bogus", None)>>, <<>>),
      Response("SEARCH q1", <<>>, <<"q1">>),
      Response("TOOL time SEARCH q1", <<ToolCall("time", None)>>, <<"q1">>),
      ChatRaises }

\* detect_tool_usage missing the TOOL marker of a text that also holds a
\* SEARCH marker
detect_tool_usage_misses_mixed(r) ==
    IF r.tools # <<>> /\ r.searches = <<>>
    THEN <<TRUE, r.tools[1].name, r.tools[1].args>>
    ELSE <<FALSE, None, None>>

\* detect_tool_usage taking the last TOOL marker of the text
detect_tool_usage_last_marker(r) ==
    IF r.tools # <<>>
    THEN <<TRUE, r.tools[Len(r.tools)].name, r.tools[Len(r.tools)].args>>
    ELSE <<FALSE, None, None>>

\* re.search(tool_pattern, text): the first TOOL marker of the text
detect_tool_usage(r) ==
    IF r.tools # <<>>
    THEN <<TRUE, r.tools[1].name, r.tools[1].args>>
    ELSE <<FALSE, None, None>>

\* the SEARCH pattern matching every response
search_matches_any_text(r) == <<r.text>>

\* re.findall(search_pattern, response_text)
search_matches(r) == r.searches

\* --------------------------------------------------- pre-emptive search ----
\* str.lower on the vocabulary of the inputs
Lower(w) ==
    CASE w = "Weather" -> "weather"
      [] w = "Budapest" -> "budapest"
      [] w = "I" -> "i"
      [] w = "What" -> "what"
      [] OTHER -> w

Capitalized == {"Weather", "Budapest", "I", "What"}

\* the search triggers that are substrings of a lower-case word
TriggersWithin(word) ==
    CASE word = "matchbox" -> {"match"}
      [] word = "knowledge" -> {"now"}
      [] word \in {"weather", "temperature", "news", "stock", "price", "score",
                   "match", "when", "today", "now", "current", "latest"} -> {word}
      [] OTHER -> {}

\* "trigger in user_lower": a substring test; no trigger holds a space, so a
\* match lies within one word
Contains(text, trigger) ==
    \E i \in 1..Len(text) : trigger \in TriggersWithin(Lower(text[i]))

\* the dictionary with the ambiguous triggers entered first
TriggerOrder_ambiguous_first ==
    <<"when", "today", "now", "current", "latest",
      "weather", "temperature", "news", "stock", "price", "score", "match">>

\* the keys of search_triggers, in the order of the dictionary
TriggerOrder ==
    <<"weather", "temperature", "news", "stock", "price", "score", "match",
      "when", "today", "now", "current", "latest">>

ConcreteTriggers ==
    {"weather", "temperature", "news", "stock", "price", "score", "match"}

RECURSIVE FirstCapital(_, _)
FirstCapital(text, i) ==
    IF i > Len(text) THEN "here"
    ELSE IF text[i] \in Capitalized /\ Lower(text[i]) \notin {"i", "what", "how", "when"}
         THEN text[i]
         ELSE FirstCapital(text, i + 1)

extract_location(text) == FirstCapital(text, 1)

RemoveWords ==
    {"what", "how", "when", "is", "the", "latest", "current", "news", "about",
     "price", "of"}

extract_topic(text) ==
    LET kept == SelectSeq([i \in 1..Len(text) |-> Lower(text[i])],
                          LAMBDA w : w \notin RemoveWords)
    IN  SubSeq(kept, 1, IF Len(kept) < 3 THEN Len(kept) ELSE 3)

\* the value of search_triggers[trigger](text); None for the ambiguous triggers
query_builder(trigger, text) ==
    CASE trigger = "weather" -> <<"weather", extract_location(text), "today">>
      [] trigger = "temperature" -> <<"temperature", extract_location(text), "now">>
      [] trigger = "news" -> <<"latest", "news">> \o extract_topic(text) \o <<"year">>
      [] trigger = "stock" -> <<"stock", "price">> \o extract_topic(text)
      [] trigger = "price" -> <<"current", "price">> \o extract_topic(text)
      [] trigger = "score" -> <<"latest">> \o extract_topic(text) \o <<"score">>
      [] trigger = "match" -> <<"latest">> \o extract_topic(text) \o <<"match", "result">>
      [] OTHER -> NoText

RECURSIVE ScanTriggers(_, _)
\* the for loop of should_auto_search: the first key found decides; every
\* query builder is a lambda, hence true, and its value is returned
ScanTriggers(text, k) ==
    IF k > Len(TriggerOrder) THEN <<FALSE, NoText>>
    ELSE IF Contains(text, TriggerOrder[k])
         THEN <<TRUE, query_builder(TriggerOrder[k], text)>>
         ELSE ScanTriggers(text, k + 1)

\* should_auto_search ending with a default query instead of (False, None)
should_auto_search_default_query(text) ==
    IF ScanTriggers(text, 1)[1] THEN ScanTriggers(text, 1) ELSE <<TRUE, text>>

\* should_auto_search that finds no trigger
should_auto_search_no_trigger(text) == <<FALSE, NoText>>

should_auto_search(text) == ScanTriggers(text, 1)

Inputs ==
    { <<"I", "like", "dogs">>,
      <<"weather", "Budapest">>,
      <<"What", "now">> }

\* ---------------------------------------------------------- chat window ----
\* The text of the chat window is the sequence of the pieces inserted.
\* add_message(sender, message) inserts "[sender]: message\n\n".
SenderPrefix(sender) == "[" \o sender \o "]: "
Shown(sender, message) == <<SenderPrefix(sender)>> \o message \o <<"\n\n">>

\* the welcome message of __init__
Welcome == <<"Welcome">>
\* the message of clear_chat
Cleared == <<"Chat history cleared. Starting fresh!">>

\* ------------------------------------------------------------ call log ----
\* One entry of the call log: the operation, its argument, its outcome and
\* the length of the working transcript when it was made (for "chat", the
\* transcript sent is the prefix of temp_history of that length).
Call(op, arg, ok, at) == [op |-> op, arg |-> arg, ok |-> ok, at |-> at]

\* A history file the program itself wrote after n earlier turns.
PriorTranscript(n) ==
    <<SystemMessage>> \o
    [i \in 1..(2 * n) |->
        Msg(IF i % 2 = 1 THEN "user" ELSE "assistant", <<"old", ToString(i)>>)]

\* Numbers of earlier turns in the initial history file: none, and the two
\* that leave the file two messages below the cap and at the cap.
PriorTurns ==
    {0, (HistoryCap - 1) \div 2 - 1, (HistoryCap - 1) \div 2}

InitFiles == {FileMissing, FileCorrupt} \cup {FileList(PriorTranscript(n)) : n \in PriorTurns}

\* No web_search call in progress.
NoSearch == [pc |-> "idle", query |-> NoText, retries |-> 0, attempt |-> 0,
             outcomes |-> <<>>, ret |-> "unset"]

\* The locals of askAI before the first turn.
InitLocals ==
    /\ pc = [w \in Workers |-> "idle"]
    /\ user_input = [w \in Workers |-> NoText]
    /\ history = [w \in Workers |-> <<>>]
    /\ temp_history = [w \in Workers |-> <<>>]
    /\ search_count = [w \in Workers |-> 0]
    /\ response = [w \in Workers |-> NoResponse]
    /\ result = [w \in Workers |-> NoText]
    /\ loaded = [w \in Workers |-> <<>>]
    /\ calls = [w \in Workers |-> <<>>]
    /\ toolRounds = [w \in Workers |-> 0]
    /\ turns = 0
    /\ ws = NoSearch
    /\ input_state = "normal"
    /\ stream_enabled = FALSE
    /\ streaming = [w \in Workers |-> FALSE]
    /\ stream_queue = <<>>
    /\ after_calls = <<>>
    /\ chat_display = Shown("JARVIS", Welcome)
    /\ seen = {}
    /\ committed = <<>>

\* config.yaml holds the defaults and the process has loaded it (the
\* command-line loop calls load_config before its first prompt).
InitDefaultConfig ==
    /\ CONFIG_FILE = ConfigFile("document", DEFAULT_CONFIG, 0)
    /\ config_cache = DEFAULT_CONFIG
    /\ config_last_modified = 0

Init ==
    /\ OLLAMA_AVAILABLE \in BOOLEAN
    /\ WEB_SEARCH_AVAILABLE \in BOOLEAN
    /\ HISTORY_FILE \in InitFiles
    /\ InitDefaultConfig
    /\ InitLocals

\* ------------------------------------------------------- message texts ----
OllamaMissingText == <<"Ollama not available. Install from: https://ollama.ai">>
ApologyText == <<"I apologize, but I'm having trouble finding the right information.">>
ErrorText == <<"I apologize, but I encountered an error">>

AutoSearchRequest(query) == Msg("assistant", <<"SEARCH">> \o query)
AutoSearchResults(query) ==
    Msg("user", <<"[SEARCH RESULTS for]">> \o query \o <<"Based on these search results">>)
\* the tool result entered as an Assistant message
ToolResult_as_assistant(tool_name, res) ==
    Msg("assistant", <<"[TOOL RESULT for]", tool_name, res, "Use this information">>)

ToolResult(tool_name, res) ==
    Msg("user", <<"[TOOL RESULT for]", tool_name, res, "Use this information">>)
\* the failure message without the explanation
ToolFailed_without_reason(res) ==
    Msg("user", <<"Tool failed.", "Please answer based on your knowledge.">>)

ToolFailed(res) ==
    Msg("user", <<"Tool failed:", res, "Please answer based on your knowledge.">>)
SearchFailed ==
    Msg("user", <<"The search failed. Please answer based on your existing knowledge instead.">>)
SearchResults(query) ==
    Msg("user", <<"[SEARCH RESULTS for]", query, "IMPORTANT: provide your FINAL answer">>)

\* ---------------------------------------------------------------- askAI ----
\* the commit saving the working transcript instead of history
Commit_saves_working(w, text) ==
    /\ history' = [history EXCEPT ![w] = Append(@, Msg("assistant", text))]
    /\ HISTORY_FILE' = save_history(Append(temp_history[w], Msg("assistant", text)))
    /\ result' = [result EXCEPT ![w] = text]
    /\ pc' = [pc EXCEPT ![w] = "done"]
    /\ committed' = Append(committed,
           [by |-> w, pair |-> <<Msg("user", user_input[w]), Msg("assistant", text)>>])

\* history.append(assistant message); save_history(history); return text
Commit(w, text) ==
    /\ history' = [history EXCEPT ![w] = Append(@, Msg("assistant", text))]
    /\ HISTORY_FILE' = save_history(Append(history[w], Msg("assistant", text)))
    /\ result' = [result EXCEPT ![w] = text]
    /\ pc' = [pc EXCEPT ![w] = "done"]
    /\ committed' = Append(committed,
           [by |-> w, pair |-> <<Msg("user", user_input[w]), Msg("assistant", text)>>])

\* askAI from its entry to the head of the while loop: load_history, the
\* OLLAMA_AVAILABLE test, should_auto_search and the pre-emptive web_search,
\* whose outcome is found.
askAI_begin(w, text, found) ==
    LET config == load_config(CurrentConfig)
        lh == load_history_config(HISTORY_FILE, config.st)
        h == load_history(HISTORY_FILE)
        auto == should_auto_search(text)
        h1 == Append(h, Msg("user", text))
        searching == auto[1] /\ auto[2] # NoText /\ WEB_SEARCH_AVAILABLE
    IN  /\ pc[w] = "idle"
        /\ turns < MaxTurns
        /\ turns' = turns + 1
        /\ user_input' = [user_input EXCEPT ![w] = text]
        /\ CONFIG_FILE' = lh.st.file
        /\ config_cache' = lh.st.cache
        /\ config_last_modified' = lh.st.last
        /\ IF lh.raised \/ (OLLAMA_AVAILABLE /\ ~IsMapping(config.ret))
           THEN \* config.get raises AttributeError, in load_history or at the
                \* model name, before the try statement
                /\ pc' = [pc EXCEPT ![w] = "raised"]
                /\ UNCHANGED <<history, temp_history, search_count, calls,
                               result, loaded>>
           ELSE IF ~OLLAMA_AVAILABLE
           THEN /\ loaded' = [loaded EXCEPT ![w] = h]
                /\ result' = [result EXCEPT ![w] = OllamaMissingText]
                /\ pc' = [pc EXCEPT ![w] = "done"]
                /\ UNCHANGED <<history, temp_history, search_count, calls>>
           ELSE /\ loaded' = [loaded EXCEPT ![w] = h]
                /\ history' = [history EXCEPT ![w] = h1]
                /\ temp_history' = [temp_history EXCEPT ![w] =
                       IF searching /\ found
                       THEN h1 \o <<AutoSearchRequest(auto[2]), AutoSearchResults(auto[2])>>
                       ELSE h1]
                /\ search_count' = [search_count EXCEPT ![w] =
                       IF searching /\ found THEN 1 ELSE 0]
                /\ calls' = [calls EXCEPT ![w] =
                       IF searching
                       THEN <<Call("search", auto[2], found, Len(h1))>>
                       ELSE <<>>]
                /\ pc' = [pc EXCEPT ![w] = "loop"]
                /\ UNCHANGED result
        /\ UNCHANGED <<flags, HISTORY_FILE, response, toolRounds, committed>>

\* ollama.chat asked for a stream whenever the turn has a stream callback
chat_stream_when_callback(w) == streaming[w]

\* The stream argument of the ollama.chat call: stream=False for every turn;
\* the stream_callback parameter of askAI is used nowhere in its body.
chat_stream(w) == FALSE

\* askAI saving the working transcript at every model call
askAI_chat_saves_transcript(w, r) ==
    /\ pc[w] = "loop"
    /\ search_count[w] < max_search_attempts
    /\ calls' = [calls EXCEPT ![w] =
           IF toolRounds[w] <= MaxToolRounds
           THEN Append(@, Call("chat", <<r.text>>, ~r.raises, Len(temp_history[w])))
           ELSE @]
    /\ IF r.raises
       THEN /\ Commit(w, ErrorText)
            /\ UNCHANGED response
       ELSE /\ response' = [response EXCEPT ![w] = r]
            /\ pc' = [pc EXCEPT ![w] = "dispatch"]
            /\ HISTORY_FILE' = save_history(temp_history[w])
            /\ UNCHANGED <<history, result, committed>>
    /\ UNCHANGED <<flags, cfgvars, user_input, temp_history, search_count,
                   loaded, toolRounds, turns>>

\* The while test succeeding and the ollama.chat call, answered by r; when
\* the call raises, or the reply is a stream (subscripting it raises), the
\* except clause commits the error text.
askAI_chat(w, r) ==
    /\ pc[w] = "loop"
    /\ search_count[w] < max_search_attempts
    /\ calls' = [calls EXCEPT ![w] =
           IF toolRounds[w] <= MaxToolRounds
           THEN Append(@, Call("chat", <<r.text>>, ~r.raises, Len(temp_history[w])))
           ELSE @]
    /\ IF r.raises \/ chat_stream(w)
       THEN /\ Commit(w, ErrorText)
            /\ UNCHANGED response
       ELSE /\ response' = [response EXCEPT ![w] = r]
            /\ pc' = [pc EXCEPT ![w] = "dispatch"]
            /\ UNCHANGED <<history, HISTORY_FILE, result, committed>>
    /\ UNCHANGED <<flags, cfgvars, user_input, temp_history, search_count,
                   loaded, toolRounds, turns>>

\* The while test failing: the fallback apology is committed.
askAI_exhausted(w) ==
    /\ pc[w] = "loop"
    /\ search_count[w] >= max_search_attempts
    /\ Commit(w, ApologyText)
    /\ UNCHANGED <<flags, cfgvars, user_input, temp_history, search_count,
                   response, loaded, calls, toolRounds, turns>>

\* The body of the loop after the reply arrived: tool detection, search
\* detection (found is the outcome of web_search), or the final answer.
askAI_dispatch(w, found) ==
    LET r == response[w]
        tool == detect_tool_usage(r)
        raw == Msg("assistant", <<r.text>>)
        at == Len(temp_history[w])
    IN  /\ pc[w] = "dispatch"
        /\ response' = [response EXCEPT ![w] = NoResponse]
        /\ IF tool[1]
           THEN LET run == execute_system_tool(tool[2], tool[3])
                    exact == toolRounds[w] < MaxToolRounds
                IN  /\ temp_history' = [temp_history EXCEPT ![w] =
                           IF ~exact THEN @
                           ELSE IF run[1]
                                THEN @ \o <<raw, ToolResult(tool[2], run[2])>>
                                ELSE @ \o <<raw, ToolFailed(run[2])>>]
                    /\ calls' = [calls EXCEPT ![w] =
                           IF exact THEN Append(@, Call("tool", <<tool[2]>>, run[1], at))
                           ELSE @]
                    /\ toolRounds' = [toolRounds EXCEPT ![w] =
                           IF exact THEN @ + 1 ELSE MaxToolRounds + 1]
                    /\ pc' = [pc EXCEPT ![w] = "loop"]
                    /\ UNCHANGED <<history, HISTORY_FILE, result, search_count,
                                   committed>>
           ELSE IF /\ search_matches(r) # <<>>
                   /\ WEB_SEARCH_AVAILABLE
                   /\ search_count[w] < max_search_attempts
                THEN LET query == search_matches(r)[1]
                     IN  /\ search_count' = [search_count EXCEPT ![w] = @ + 1]
                         /\ calls' = [calls EXCEPT ![w] =
                                Append(@, Call("search", <<query>>, found, at))]
                         /\ temp_history' = [temp_history EXCEPT ![w] =
                                IF found
                                THEN @ \o <<raw, SearchResults(query)>>
                                ELSE @ \o <<raw, SearchFailed>>]
                         /\ pc' = [pc EXCEPT ![w] = "loop"]
                         /\ UNCHANGED <<history, HISTORY_FILE, result, toolRounds,
                                        committed>>
                ELSE /\ Commit(w, <<r.text>>)
                     /\ UNCHANGED <<temp_history, search_count, calls, toolRounds>>
        /\ UNCHANGED <<flags, cfgvars, user_input, loaded, turns>>

\* The caller takes the returned text, or catches the exception; the locals
\* of the call are gone.
askAI_return(w) ==
    /\ pc[w] \in {"done", "raised"}
    /\ pc' = [pc EXCEPT ![w] = "idle"]
    /\ user_input' = [user_input EXCEPT ![w] = NoText]
    /\ history' = [history EXCEPT ![w] = <<>>]
    /\ temp_history' = [temp_history EXCEPT ![w] = <<>>]
    /\ search_count' = [search_count EXCEPT ![w] = 0]
    /\ result' = [result EXCEPT ![w] = NoText]
    /\ loaded' = [loaded EXCEPT ![w] = <<>>]
    /\ calls' = [calls EXCEPT ![w] = <<>>]
    /\ toolRounds' = [toolRounds EXCEPT ![w] = 0]
    /\ UNCHANGED <<flags, cfgvars, HISTORY_FILE, response, turns, committed>>

\* What a clear_history call made now does: config.get raises for a
\* configuration that is not a mapping, and then nothing is saved.
clear_history_outcome ==
    LET config == load_config(CurrentConfig)
    IN  [raised |-> ~IsMapping(config.ret),
         st |-> config.st,
         file |-> IF IsMapping(config.ret)
                  THEN save_history(<<Msg("system", config.ret.rules)>>)
                  ELSE HISTORY_FILE]

clear_history ==
    LET out == clear_history_outcome
    IN  /\ CONFIG_FILE' = out.st.file
        /\ config_cache' = out.st.cache
        /\ config_last_modified' = out.st.last
        /\ HISTORY_FILE' = out.file
        /\ committed' = IF out.raised THEN committed ELSE <<>>
        /\ UNCHANGED <<flags, pc, user_input, history, temp_history, search_count,
                       response, result, loaded, calls, toolRounds, turns>>

\* ------------------------------------------------------- specifications ----
AllIdle == \A w \in Workers : pc[w] = "idle"

\* A backend that requests at most MaxToolRounds tools in one turn.
BoundedBackend(w, r) == r.tools # <<>> => toolRounds[w] < MaxToolRounds

\* One turn at a time, as in the command-line loop: a turn or a clear starts
\* only when no turn is in flight.
SubmitTurn == \E w \in SeqWorkers, text \in Inputs, found \in BOOLEAN :
                 AllIdle /\ askAI_begin(w, text, found) /\ UNCHANGED <<ws, guivars>>
ChatStep == \E w \in SeqWorkers, r \in Responses :
                 BoundedBackend(w, r) /\ askAI_chat(w, r) /\ UNCHANGED <<ws, guivars>>
ChatStepAny == \E w \in SeqWorkers, r \in Responses :
                 askAI_chat(w, r) /\ UNCHANGED <<ws, guivars>>
ExhaustedStep == \E w \in SeqWorkers : askAI_exhausted(w) /\ UNCHANGED <<ws, guivars>>
DispatchStep == \E w \in SeqWorkers, found \in BOOLEAN :
                 askAI_dispatch(w, found) /\ UNCHANGED <<ws, guivars>>
ReturnStep == \E w \in SeqWorkers : askAI_return(w) /\ UNCHANGED <<ws, guivars>>
ClearCommand == AllIdle /\ clear_history /\ UNCHANGED <<ws, guivars>>

Next ==
    \/ SubmitTurn
    \/ ChatStep
    \/ ExhaustedStep
    \/ DispatchStep
    \/ ReturnStep
    \/ ClearCommand

Spec == Init /\ [][Next]_vars

\* The same program with an unrestricted backend.  A running turn keeps
\* running: the interpreter executes the next statement, and the calls to the
\* backend and to the search provider return.
NextLive ==
    \/ SubmitTurn
    \/ ChatStepAny
    \/ ExhaustedStep
    \/ DispatchStep
    \/ ReturnStep
    \/ ClearCommand

LiveSpec ==
    /\ Init
    /\ [][NextLive]_vars
    /\ WF_vars(ChatStepAny)
    /\ WF_vars(ExhaustedStep)
    /\ WF_vars(DispatchStep)

\* ----------------------------------------------------------- web_search ----
\* What one provider attempt (DDGS().text) can do: return results, return an
\* empty list, or raise.
Outcomes == {"results", "empty", "throws"}

\* the variables of the turns, which web_search leaves alone
turnvars ==
    <<HISTORY_FILE, pc, user_input, history, temp_history, search_count,
      response, result, loaded, calls, toolRounds, turns, guivars, committed>>

\* web_search(query, retries) up to the head of the for loop: without the
\* provider module it returns None at once.
web_search_call(query, retries) ==
    /\ ws.pc = "idle"
    /\ ws' = IF WEB_SEARCH_AVAILABLE
             THEN [NoSearch EXCEPT !.pc = "attempt", !.query = query,
                                   !.retries = retries]
             ELSE [NoSearch EXCEPT !.pc = "returned", !.query = query,
                                   !.retries = retries, !.ret = "None"]
    /\ UNCHANGED <<flags, cfgvars, turnvars>>

\* one iteration that gives up as soon as the provider raises
web_search_attempt_no_retry_on_throw(outcome) ==
    /\ ws.pc = "attempt"
    /\ ws.attempt < ws.retries
    /\ ws' = [ws EXCEPT !.attempt = @ + 1,
                        !.outcomes = Append(@, outcome),
                        !.pc = IF outcome = "empty" THEN "attempt" ELSE "returned",
                        !.ret = IF outcome = "results" THEN "results text"
                                ELSE IF outcome = "throws" THEN "None" ELSE @]
    /\ UNCHANGED <<flags, cfgvars, turnvars>>

\* One iteration of the for loop: the provider is asked; results are
\* formatted and returned, an empty list continues, an exception is caught
\* and the loop goes on.
web_search_attempt(outcome) ==
    /\ ws.pc = "attempt"
    /\ ws.attempt < ws.retries
    /\ ws' = [ws EXCEPT !.attempt = @ + 1,
                        !.outcomes = Append(@, outcome),
                        !.pc = IF outcome = "results" THEN "returned" ELSE "attempt",
                        !.ret = IF outcome = "results" THEN "results text" ELSE @]
    /\ UNCHANGED <<flags, cfgvars, turnvars>>

\* The for loop is exhausted: return None.
web_search_give_up ==
    /\ ws.pc = "attempt"
    /\ ws.attempt >= ws.retries
    /\ ws' = [ws EXCEPT !.pc = "returned", !.ret = "None"]
    /\ UNCHANGED <<flags, cfgvars, turnvars>>

\* The caller takes the value; the frame is gone.
web_search_return ==
    /\ ws.pc = "returned"
    /\ ws' = NoSearch
    /\ UNCHANGED <<flags, cfgvars, turnvars>>

Queries == {<<"q1">>, <<"weather", "Budapest">>}

SearchInit ==
    /\ OLLAMA_AVAILABLE = TRUE
    /\ WEB_SEARCH_AVAILABLE \in BOOLEAN
    /\ HISTORY_FILE = FileMissing
    /\ InitDefaultConfig
    /\ InitLocals

SearchCall == \E query \in Queries, retries \in 0..MaxRetriesArg :
                 web_search_call(query, retries)
SearchAttempt == \E outcome \in Outcomes : web_search_attempt(outcome)

SearchNext ==
    \/ SearchCall
    \/ SearchAttempt
    \/ web_search_give_up
    \/ web_search_return

SearchSpec == SearchInit /\ [][SearchNext]_vars

\* ------------------------------------------- persistence specification ----
\* A fresh process (nothing cached) started on any state of config.yaml and
\* of chat_history.json; the user edits config.yaml between turns.
ConfigDocuments == {DEFAULT_CONFIG, CustomConfig, ListDocument, NoConfig}

ConfigContents ==
    {<<"missing", NoConfig>>, <<"unparseable", NoConfig>>}
        \cup {<<"document", d>> : d \in ConfigDocuments}

\* chat_history.json: missing, not JSON, an empty list, a list that does not
\* start with a System message, and a transcript of one earlier turn
PersistHistoryFiles ==
    {FileMissing, FileCorrupt, FileList(<<>>),
     FileList(<<Msg("user", <<"old", "1">>), Msg("assistant", <<"old", "2">>)>>),
     FileList(PriorTranscript(1))}

PersistInputs == {<<"I", "like", "dogs">>}
PersistResponses == {Response("plain answer", <<>>, <<>>), ChatRaises}

PersistInit ==
    /\ OLLAMA_AVAILABLE \in BOOLEAN
    /\ WEB_SEARCH_AVAILABLE = FALSE
    /\ HISTORY_FILE \in PersistHistoryFiles
    /\ \E c \in ConfigContents : CONFIG_FILE = ConfigFile(c[1], c[2], 0)
    /\ config_cache = NoConfig
    /\ config_last_modified = NeverModified
    /\ InitLocals

\* The user rewrites or deletes config.yaml.
EditConfig ==
    /\ CONFIG_FILE.mtime < MaxConfigWrites
    /\ \E c \in ConfigContents :
          /\ <<c[1], c[2]>> # <<CONFIG_FILE.state, CONFIG_FILE.data>>
          /\ CONFIG_FILE' = ConfigFile(c[1], c[2], CONFIG_FILE.mtime + 1)
    /\ UNCHANGED <<flags, HISTORY_FILE, pc, user_input, history, temp_history,
                   search_count, response, result, loaded, calls, toolRounds,
                   turns, config_cache, config_last_modified, ws, guivars,
                   committed>>

PersistSubmit == \E w \in SeqWorkers, text \in PersistInputs :
                    AllIdle /\ askAI_begin(w, text, FALSE) /\ UNCHANGED <<ws, guivars>>
PersistChat == \E w \in SeqWorkers, r \in PersistResponses :
                    askAI_chat(w, r) /\ UNCHANGED <<ws, guivars>>
PersistDispatch == \E w \in SeqWorkers : askAI_dispatch(w, FALSE) /\ UNCHANGED <<ws, guivars>>

PersistNext ==
    \/ PersistSubmit
    \/ PersistChat
    \/ PersistDispatch
    \/ ReturnStep
    \/ ClearCommand
    \/ EditConfig

PersistSpec == PersistInit /\ [][PersistNext]_vars

\* -------------------------------------------------- tool specification ----
\* Turns whose backend asks for tools that fail and for calculations.
CalculateArgs ==
    {"2+2", "1/0", "[1,2]", "(1,2)", "1 if 2 else 3", "(1).real", "1<2"}

ToolResponses ==
    { Response("plain answer", <<>>, <<>>),
      Response("TOOL bogus", <<ToolCall("bogus", None)>>, <<>>),
      Response("TOOL calculate", <<ToolCall("calculate", None)>>, <<>>) }
    \cup { Response("TOOL calculate " \o a, <<ToolCall("calculate", a)>>, <<>>) :
              a \in CalculateArgs }

ToolInputs == {<<"I", "like", "dogs">>}

ToolInit ==
    /\ OLLAMA_AVAILABLE = TRUE
    /\ WEB_SEARCH_AVAILABLE = FALSE
    /\ HISTORY_FILE \in {FileMissing, FileList(PriorTranscript(1))}
    /\ InitDefaultConfig
    /\ InitLocals

ToolSubmit == \E w \in SeqWorkers, text \in ToolInputs :
                 AllIdle /\ askAI_begin(w, text, FALSE) /\ UNCHANGED <<ws, guivars>>
ToolChat == \E w \in SeqWorkers, r \in ToolResponses :
                 BoundedBackend(w, r) /\ askAI_chat(w, r) /\ UNCHANGED <<ws, guivars>>
ToolDispatch == \E w \in SeqWorkers : askAI_dispatch(w, FALSE) /\ UNCHANGED <<ws, guivars>>

ToolNext ==
    \/ ToolSubmit
    \/ ToolChat
    \/ ToolDispatch
    \/ ReturnStep

ToolSpec == ToolInit /\ [][ToolNext]_vars

\* ------------------------------------------- auto-search specification ----
\* Turns on inputs with no trigger, with ambiguous triggers only, with a
\* concrete and an ambiguous trigger, and with triggers inside longer words.
AutoInputs ==
    { <<"I", "like", "dogs">>,
      <<"What", "now">>,
      <<"knowledge", "base">>,
      <<"latest", "news">>,
      <<"matchbox", "cars">>,
      <<"Weather", "Budapest">> }

AutoResponses == {Response("plain answer", <<>>, <<>>), Response("SEARCH q1", <<>>, <<"q1">>)}

AutoInit ==
    /\ OLLAMA_AVAILABLE \in BOOLEAN
    /\ WEB_SEARCH_AVAILABLE \in BOOLEAN
    /\ HISTORY_FILE = FileMissing
    /\ InitDefaultConfig
    /\ InitLocals

AutoSubmit == \E w \in SeqWorkers, text \in AutoInputs, found \in BOOLEAN :
                 AllIdle /\ askAI_begin(w, text, found) /\ UNCHANGED <<ws, guivars>>
AutoChat == \E w \in SeqWorkers, r \in AutoResponses :
                 askAI_chat(w, r) /\ UNCHANGED <<ws, guivars>>

AutoNext ==
    \/ AutoSubmit
    \/ AutoChat
    \/ ExhaustedStep
    \/ DispatchStep
    \/ ReturnStep

AutoSpec == AutoInit /\ [][AutoNext]_vars

\* ------------------------------------------------ marker specification ----
\* Turns whose backend puts several markers into one response.
MarkerResponses ==
    { Response("plain answer", <<>>, <<>>),
      Response("TOOL time TOOL bogus", <<ToolCall("time", None), ToolCall("bogus", None)>>, <<>>),
      Response("TOOL bogus TOOL date", <<ToolCall("bogus", None), ToolCall("date", None)>>, <<>>),
      Response("SEARCH q1 SEARCH q2", <<>>, <<"q1", "q2">>),
      Response("SEARCH q2 TOOL date SEARCH q1", <<ToolCall("date", None)>>, <<"q2", "q1">>) }

MarkerInputs == {<<"I", "like", "dogs">>}

MarkerInit ==
    /\ OLLAMA_AVAILABLE = TRUE
    /\ WEB_SEARCH_AVAILABLE \in BOOLEAN
    /\ HISTORY_FILE = FileMissing
    /\ InitDefaultConfig
    /\ InitLocals

MarkerSubmit == \E w \in SeqWorkers, text \in MarkerInputs :
                   AllIdle /\ askAI_begin(w, text, FALSE) /\ UNCHANGED <<ws, guivars>>
MarkerChat == \E w \in SeqWorkers, r \in MarkerResponses :
                   BoundedBackend(w, r) /\ askAI_chat(w, r) /\ UNCHANGED <<ws, guivars>>

MarkerNext ==
    \/ MarkerSubmit
    \/ MarkerChat
    \/ ExhaustedStep
    \/ DispatchStep
    \/ ReturnStep

MarkerSpec == MarkerInit /\ [][MarkerNext]_vars

\* --------------------------------------------------- GUI specification ----
\* The window of jarvis_ui with the streaming checkbox unticked (the default
\* of the settings): every submitted message is processed by a thread of its
\* own, and the Clear button works at any time.  Nothing is put on the stream
\* queue, so process_stream_queue finds it empty every time.

\* the variables outside the window
backvars ==
    <<flags, cfgvars, HISTORY_FILE, pc, user_input, history, temp_history,
      search_count, response, result, loaded, calls, toolRounds, turns, ws,
      committed>>

\* a callback scheduled with root.after(0, ...)
AddMessageCall(sender, message) == [op |-> "add_message", sender |-> sender, message |-> message]
\* the callbacks of the finally clause of process_input
EnableInputCall == [op |-> "enable", sender |-> "", message |-> NoText]

\* the message shown when process_input catches an exception
ErrorMessage == <<"Error:", "exception">>

\* the start of process_input: with streaming "__START__" is put on the
\* queue before askAI is called
process_input_start(w) ==
    /\ streaming' = [streaming EXCEPT ![w] = stream_enabled]
    /\ stream_queue' = IF stream_enabled
                       THEN Append(stream_queue, "__START__")
                       ELSE stream_queue

\* send_message starting the thread without disabling the input
send_message_leaves_input_enabled(w, text) ==
    /\ chat_display' = chat_display \o Shown("YOU", text)
    /\ process_input_start(w)
    /\ askAI_begin(w, text, FALSE)
    /\ UNCHANGED <<ws, input_state, stream_enabled, after_calls, seen>>

\* send_message with a non-empty entry: the message is shown, the entry is
\* emptied, the entry and the button are disabled, and the thread w runs
\* process_input up to the loop of askAI.  A disabled entry stays empty
\* (typing and the insert of a transcription do nothing), so nothing can be
\* sent while it is disabled.
send_message(w, text) ==
    /\ input_state = "normal"
    /\ chat_display' = chat_display \o Shown("YOU", text)
    /\ input_state' = "disabled"
    /\ process_input_start(w)
    /\ askAI_begin(w, text, FALSE)
    /\ UNCHANGED <<ws, stream_enabled, after_calls, seen>>

\* process_input after askAI returned or raised.  With streaming the
\* returned text is kept in full_response and "__END__" is put on the queue;
\* without it add_message("JARVIS", response) is scheduled; an exception
\* schedules add_message("SYSTEM", error_msg).  The finally clause schedules
\* the callbacks that enable the input again.
process_input_finally(w) ==
    /\ askAI_return(w)
    /\ stream_queue' = IF pc[w] = "done" /\ streaming[w]
                       THEN Append(stream_queue, "__END__")
                       ELSE stream_queue
    /\ after_calls' =
          after_calls
          \o (IF pc[w] = "raised" THEN <<AddMessageCall("SYSTEM", ErrorMessage)>>
              ELSE IF streaming[w] THEN <<>>
              ELSE <<AddMessageCall("JARVIS", result[w])>>)
          \o <<EnableInputCall>>
    /\ streaming' = [streaming EXCEPT ![w] = FALSE]
    /\ UNCHANGED <<ws, input_state, stream_enabled, chat_display>>

\* The main loop runs the oldest scheduled callback.
run_after_call ==
    /\ after_calls # <<>>
    /\ after_calls' = Tail(after_calls)
    /\ LET call == Head(after_calls)
       IN  IF call.op = "add_message"
           THEN /\ chat_display' = chat_display \o Shown(call.sender, call.message)
                /\ UNCHANGED input_state
           ELSE /\ input_state' = "normal"
                /\ UNCHANGED chat_display
    /\ UNCHANGED <<backvars, stream_enabled, streaming, stream_queue, seen>>

\* what process_stream_queue inserts for the messages of the queue:
\* start_stream_message("JARVIS"), end_stream_message, or the chunk
RECURSIVE StreamText(_)
StreamText(queue) ==
    IF queue = <<>>
    THEN <<>>
    ELSE (IF Head(queue) = "__START__" THEN <<SenderPrefix("JARVIS")>>
          ELSE IF Head(queue) = "__END__" THEN <<"\n\n">>
          ELSE <<Head(queue)>>)
         \o StreamText(Tail(queue))

\* process_stream_queue, run by the main loop every 50 ms: the queue is
\* emptied into the chat window.
process_stream_queue ==
    /\ chat_display' = chat_display \o StreamText(stream_queue)
    /\ stream_queue' = <<>>
    /\ UNCHANGED <<backvars, input_state, stream_enabled, streaming, after_calls, seen>>

\* The user ticks or unticks the streaming checkbox.
on_stream_toggle ==
    /\ stream_enabled' = ~stream_enabled
    /\ UNCHANGED <<backvars, input_state, streaming, stream_queue, after_calls,
                   chat_display, seen>>

\* clear_chat: the Clear button is never disabled.  The window is emptied,
\* clear_history is called (an exception is printed), and the notice shown.
clear_chat ==
    /\ clear_history
    /\ chat_display' = Shown("JARVIS", Cleared)
    /\ UNCHANGED <<ws, input_state, stream_enabled, streaming, stream_queue,
                   after_calls, seen>>

GuiInputs == {<<"I", "like", "dogs">>, <<"What", "now">>}
GuiResponses == {Response("plain answer", <<>>, <<>>), ChatRaises}

GuiInit ==
    /\ OLLAMA_AVAILABLE = TRUE
    /\ WEB_SEARCH_AVAILABLE = FALSE
    /\ HISTORY_FILE \in {FileMissing, FileList(PriorTranscript((HistoryCap - 1) \div 2 - 1))}
    /\ InitDefaultConfig
    /\ InitLocals

GuiSend == \E w \in Workers, text \in GuiInputs : send_message(w, text)
GuiChat == \E w \in Workers, r \in GuiResponses :
               askAI_chat(w, r) /\ UNCHANGED <<ws, guivars>>
GuiDispatch == \E w \in Workers : askAI_dispatch(w, FALSE) /\ UNCHANGED <<ws, guivars>>
GuiFinish == \E w \in Workers : process_input_finally(w) /\ UNCHANGED seen

GuiNext ==
    \/ GuiSend
    \/ GuiChat
    \/ GuiDispatch
    \/ GuiFinish
    \/ run_after_call
    \/ clear_chat

GuiSpec == GuiInit /\ [][GuiNext]_vars

\* ------------------------------------------- streaming specification ----
\* The window with the streaming checkbox in use: the user ticks or unticks
\* it between turns, sends one message at a time and clears the chat between
\* turns.  The message triggers the pre-emptive search, which finds nothing.
StreamInputs == {<<"Weather", "Budapest">>}
StreamResponses ==
    { Response("plain answer", <<>>, <<>>),
      Response("TOOL time", <<ToolCall("time", None)>>, <<>>),
      ChatRaises }

StreamInit ==
    /\ OLLAMA_AVAILABLE = TRUE
    /\ WEB_SEARCH_AVAILABLE = TRUE
    /\ HISTORY_FILE = FileMissing
    /\ InitDefaultConfig
    /\ InitLocals

\* the turn of w as it finishes: whether it had a stream callback, its input,
\* what it loaded, its calls, what askAI returned and what the file holds
FinishedTurn(w) ==
    [stream |-> streaming[w], input |-> user_input[w], loaded |-> loaded[w],
     calls |-> calls[w], raised |-> pc[w] = "raised", result |-> result[w],
     file |-> HISTORY_FILE]

StreamToggle == input_state = "normal" /\ on_stream_toggle
StreamSend == \E w \in SeqWorkers, text \in StreamInputs : send_message(w, text)
StreamChat == \E w \in SeqWorkers, r \in StreamResponses :
                  BoundedBackend(w, r) /\ askAI_chat(w, r) /\ UNCHANGED <<ws, guivars>>
StreamFinish == \E w \in SeqWorkers :
                  process_input_finally(w) /\ seen' = seen \cup {FinishedTurn(w)}
StreamDispatch == \E w \in SeqWorkers : askAI_dispatch(w, FALSE) /\ UNCHANGED <<ws, guivars>>
StreamClear == input_state = "normal" /\ stream_queue = <<>> /\ clear_chat

StreamNext ==
    \/ StreamToggle
    \/ StreamSend
    \/ StreamChat
    \/ StreamDispatch
    \/ StreamFinish
    \/ run_after_call
    \/ process_stream_queue
    \/ StreamClear

StreamSpec == StreamInit /\ [][StreamNext]_vars

\* Every thread runs to the end of process_input, and the main loop runs the
\* scheduled callbacks and the queue processor.
StreamLiveSpec ==
    /\ StreamSpec
    /\ WF_vars(StreamFinish)
    /\ WF_vars(run_after_call)
    /\ WF_vars(process_stream_queue)

\* ================================================================ claims ====
Range(s) == {s[i] : i \in 1..Len(s)}

SearchCalls(w) == {i \in 1..Len(calls[w]) : calls[w][i].op = "search"}
ChatCalls(w) == {i \in 1..Len(calls[w]) : calls[w][i].op = "chat"}
ToolCalls(w) == {i \in 1..Len(calls[w]) : calls[w][i].op = "tool"}

\* the turn of w went past the OLLAMA_AVAILABLE test and has finished
LoopTurnDone(w) == pc[w] = "done" /\ OLLAMA_AVAILABLE

\* the User/Assistant pair of the finished turn of w
TurnPair(w) == <<Msg("user", user_input[w]), Msg("assistant", result[w])>>

\* the cap of the data model: the first message, then the most recent C-1
Capped(t) ==
    IF Len(t) <= HistoryCap
    THEN t
    ELSE <<t[1]>> \o [i \in 1..(HistoryCap - 1) |-> t[Len(t) - (HistoryCap - 1) + i]]

SystemCount(t) == Cardinality({i \in 1..Len(t) : t[i].role = "system"})

\* C1: once the history file holds a saved transcript, that transcript has at
\* most 31 messages and its first message has role System, whatever turns
\* and clears ran.
C1_SavedWithinCap ==
    HISTORY_FILE.state = "list" =>
        /\ Len(HISTORY_FILE.data) >= 1
        /\ Len(HISTORY_FILE.data) <= HistoryCap
        /\ HISTORY_FILE.data[1].role = "system"

\* a turn whose commit had to truncate
C1_Witness ==
    \E w \in SeqWorkers :
        /\ pc[w] = "done"
        /\ Len(history[w]) > HistoryCap
        /\ Len(HISTORY_FILE.data) = HistoryCap

\* C2: every turn terminates: a turn that entered the loop reaches its
\* return, whatever the backend answers.
C2_EveryTurnTerminates ==
    \A w \in SeqWorkers : (pc[w] = "loop") ~> (pc[w] = "done")

\* C3: in one turn the searches executed, the pre-emptive one and the failed
\* ones included, are at most maxSearchAttempts.
C3_SearchesWithinBudget ==
    \A w \in SeqWorkers : Cardinality(SearchCalls(w)) <= max_search_attempts

\* C4: when a turn has ended, every search the model requested was followed
\* by a model call whose transcript held the outcome message of that search.
C4_SearchOutcomeSentToModel ==
    \A w \in SeqWorkers :
        pc[w] = "done" =>
            \A i \in SearchCalls(w) :
                i > 1 =>
                    \E j \in ChatCalls(w) :
                        j > i /\ calls[w][j].at >= calls[w][i].at + 2

\* C5: after a turn that ran the loop, the history file is the transcript
\* loaded at the start followed by the user input and the returned text,
\* capped, and holds none of the messages the working transcript added.
C5_OnlyPairPersisted ==
    \A w \in SeqWorkers :
        LoopTurnDone(w) =>
            /\ HISTORY_FILE = FileList(Capped(loaded[w] \o TurnPair(w)))
            /\ \A i \in (Len(loaded[w]) + 2)..Len(temp_history[w]) :
                   temp_history[w][i] \notin Range(HISTORY_FILE.data)

\* a finished turn whose working transcript held tool or search messages and
\* whose commit had to truncate
C5_Witness ==
    \E w \in SeqWorkers :
        /\ LoopTurnDone(w)
        /\ Len(temp_history[w]) > Len(loaded[w]) + 1
        /\ Len(loaded[w]) = HistoryCap

\* every reply of the turn of w held a SEARCH marker, and every search failed
EveryReplySearches(w) ==
    /\ ChatCalls(w) # {}
    /\ \A j \in ChatCalls(w) :
           /\ calls[w][j].ok
           /\ \E r \in Responses : r.text = calls[w][j].arg[1] /\ r.searches # <<>>
EverySearchFailed(w) == \A i \in SearchCalls(w) : ~calls[w][i].ok

\* C6: a turn in which the model requests a search in every reply and every
\* search fails ends after two failed searches with the fallback apology, and
\* persists one new User/Assistant pair.
C6_TwoFailedSearchesThenApology ==
    \A w \in SeqWorkers :
        (LoopTurnDone(w) /\ WEB_SEARCH_AVAILABLE /\ EveryReplySearches(w)
            /\ EverySearchFailed(w)) =>
            /\ result[w] = ApologyText
            /\ Cardinality(SearchCalls(w)) = max_search_attempts
            /\ HISTORY_FILE = FileList(Capped(loaded[w] \o TurnPair(w)))

\* C7: the round of a reply that holds a TOOL marker executes that tool and
\* no search, and leaves search_count as it is, also when the reply holds a
\* SEARCH marker too.
C7_ToolReplyNeverSearches ==
    [][\A w \in SeqWorkers :
          (pc[w] = "dispatch" /\ response[w].tools # <<>> /\ pc'[w] # "dispatch") =>
              /\ search_count'[w] = search_count[w]
              /\ Len(calls'[w]) = Len(calls[w]) + 1
              /\ calls'[w][Len(calls'[w])].op = "tool"
              /\ calls'[w][Len(calls'[w])].arg = <<response[w].tools[1].name>>]_vars

\* a round that ran the time tool for a reply that also held a SEARCH
\* marker, with search available and budget left
C7_Witness ==
    \E w \in SeqWorkers :
        /\ WEB_SEARCH_AVAILABLE
        /\ search_count[w] < max_search_attempts
        /\ Len(calls[w]) >= 2
        /\ calls[w][Len(calls[w])].op = "tool"
        /\ calls[w][Len(calls[w])].arg = <<"time">>
        /\ calls[w][Len(calls[w]) - 1].arg = <<"TOOL time SEARCH q1">>

\* the input holds none of the trigger terms
NoTrigger(text) == \A k \in 1..Len(TriggerOrder) : ~Contains(text, TriggerOrder[k])

\* C8: for an input without trigger terms no search precedes the first model
\* call, and the transcript of that call is the loaded transcript followed
\* by the new User message.
C8_NoTriggerFirstCallClean ==
    \A w \in SeqWorkers :
        (pc[w] # "idle" /\ NoTrigger(user_input[w]) /\ calls[w] # <<>>) =>
            /\ calls[w][1].op = "chat"
            /\ SubSeq(temp_history[w], 1, calls[w][1].at)
                   = loaded[w] \o <<Msg("user", user_input[w])>>

\* the first model call of a turn with earlier history, no trigger in the
\* input and search available
C8_Witness ==
    \E w \in SeqWorkers :
        /\ pc[w] = "dispatch"
        /\ NoTrigger(user_input[w])
        /\ WEB_SEARCH_AVAILABLE
        /\ Len(calls[w]) = 1
        /\ Len(loaded[w]) > 1

\* C9: a turn that loaded a transcript of exactly 31 messages leaves the
\* System message, then messages 4..31 of the loaded transcript in their
\* order, then the new pair: the two oldest non-System messages are dropped
\* and the System message occurs once.
C9_TruncationAtCap ==
    \A w \in SeqWorkers :
        (LoopTurnDone(w) /\ Len(loaded[w]) = HistoryCap) =>
            LET f == HISTORY_FILE.data
            IN  /\ Len(f) = HistoryCap
                /\ f[1] = loaded[w][1]
                /\ f[1].role = "system"
                /\ \A i \in 2..(HistoryCap - 2) : f[i] = loaded[w][i + 2]
                /\ f[HistoryCap - 1] = Msg("user", user_input[w])
                /\ f[HistoryCap] = Msg("assistant", result[w])
                /\ SystemCount(f) = 1

\* a finished turn that started from a transcript at the cap
C9_Witness ==
    \E w \in SeqWorkers : LoopTurnDone(w) /\ Len(loaded[w]) = HistoryCap

\* C10: the saved transcript, and the transcript load_history makes of the
\* history file, hold exactly one System message, at index 0.
C10_OneSystemMessage ==
    /\ HISTORY_FILE.state = "list" =>
           /\ SystemCount(HISTORY_FILE.data) = 1
           /\ HISTORY_FILE.data[1].role = "system"
    /\ SystemCount(load_history(HISTORY_FILE)) = 1
    /\ load_history(HISTORY_FILE)[1].role = "system"

\* the second turn of a behaviour committing with truncation
C10_Witness ==
    \E w \in SeqWorkers :
        /\ turns = MaxTurns
        /\ pc[w] = "done"
        /\ Len(history[w]) > HistoryCap
        /\ HISTORY_FILE.state = "list"

\* C11: for a persisted transcript that starts with a System message and has
\* at most 31 messages, saving what load_history returns leaves the file as
\* it is: the same messages in the same order.
C11_RoundTripWithinCap ==
    (/\ HISTORY_FILE.state = "list"
     /\ HISTORY_FILE.data # <<>>
     /\ HISTORY_FILE.data[1].role = "system"
     /\ Len(HISTORY_FILE.data) <= HistoryCap)
    => save_history(load_history(HISTORY_FILE)) = HISTORY_FILE

\* a transcript at the cap that a turn of this run has written
C11_Witness ==
    /\ turns > 0
    /\ \E w \in Workers : pc[w] = "done" /\ OLLAMA_AVAILABLE
    /\ HISTORY_FILE.state = "list"
    /\ Len(HISTORY_FILE.data) = HistoryCap
    /\ HISTORY_FILE.data[1].role = "system"
    /\ save_history(load_history(HISTORY_FILE)) = HISTORY_FILE

\* C13: a step that leaves a turn in flight (loading, a model call, a tool
\* or a search step that does not end the turn) leaves the history file
\* unchanged, and the file still loads to what the turn loaded at its start;
\* the file changes only at the final commit.
C13_NoWriteBeforeCommit ==
    [][\A w \in Workers :
          pc'[w] \in {"loop", "dispatch"}
          => /\ HISTORY_FILE' = HISTORY_FILE
             /\ load_history(HISTORY_FILE) = loaded'[w]]_vars

\* a turn in flight after a model call and a tool step, the working
\* transcript grown and the file as loaded
C13_Witness ==
    \E w \in Workers :
        /\ pc[w] = "loop"
        /\ ChatCalls(w) # {}
        /\ ToolCalls(w) # {}
        /\ Len(temp_history[w]) > Len(loaded[w]) + 1
        /\ load_history(HISTORY_FILE) = loaded[w]

\* C20: a response with neither a tool marker nor a search marker ends the
\* turn: its text is returned and persisted as the Assistant message of the
\* pair, the call log does not grow, and the only step after it is the
\* return to the caller.
C20_PlainResponseEndsTurn ==
    [][\A w \in SeqWorkers :
          /\ (/\ pc[w] = "dispatch"
               /\ response[w].tools = <<>>
               /\ response[w].searches = <<>>)
             => /\ pc'[w] = "done"
                /\ result'[w] = <<response[w].text>>
                /\ calls'[w] = calls[w]
                /\ HISTORY_FILE'.state = "list"
                /\ HISTORY_FILE'.data =
                      Capped(loaded[w] \o <<Msg("user", user_input[w]),
                                            Msg("assistant", <<response[w].text>>)>>)
          /\ pc[w] = "done" => pc'[w] = "idle" /\ calls'[w] = <<>>]_vars

\* a turn ended by a plain response after a tool round and a search
C20_Witness ==
    \E w \in SeqWorkers :
        /\ LoopTurnDone(w)
        /\ result[w] = <<"plain answer">>
        /\ ToolCalls(w) # {}
        /\ SearchCalls(w) # {}
        /\ calls[w][Len(calls[w])].op = "chat"
        /\ calls[w][Len(calls[w])].arg = <<"plain answer">>

\* the turn of w ended because the backend is unreachable: the ollama module
\* is not available, or the last model call raised
BackendUnreachable(w) ==
    /\ pc[w] = "done"
    /\ \/ ~OLLAMA_AVAILABLE
       \/ /\ calls[w] # <<>>
          /\ calls[w][Len(calls[w])].op = "chat"
          /\ ~calls[w][Len(calls[w])].ok

\* C15: when the backend is unreachable the model call is not retried, and
\* the degraded answer is persisted with the user input as a User/Assistant
\* pair.
C15_DegradedAnswerPersisted ==
    \A w \in SeqWorkers :
        BackendUnreachable(w)
        => /\ Cardinality({i \in ChatCalls(w) : ~calls[w][i].ok}) <= 1
           /\ result[w] \in {OllamaMissingText, ErrorText}
           /\ HISTORY_FILE.state = "list"
           /\ HISTORY_FILE.data = Capped(loaded[w] \o TurnPair(w))

\* C14: whatever the states of config.yaml and of chat_history.json, on the
\* first and on every later call load_config returns a mapping and askAI
\* returns a text instead of raising.
C14_NoFaultFromPersistence ==
    /\ IsMapping(load_config(CurrentConfig).ret)
    /\ \A w \in Workers : pc[w] # "raised"

\* load_history called now raises
LoadHistoryRaises == load_history_config(HISTORY_FILE, CurrentConfig).raised

\* C19: load_history never raises; for a missing or corrupt file it returns
\* exactly one System message with the configured rules, and for a list
\* that does not start with a System message it returns the list with the
\* System message in front.
C19_LoadHistoryTotal ==
    /\ ~LoadHistoryRaises
    /\ HISTORY_FILE.state # "list"
          => load_history(HISTORY_FILE) = <<Msg("system", ConfiguredRules)>>
    /\ (HISTORY_FILE.state = "list" /\ NeedsRules(HISTORY_FILE))
          => load_history(HISTORY_FILE) =
                 <<Msg("system", ConfiguredRules)>> \o HISTORY_FILE.data

\* the tool marker that the tool call at position i of the log of w ran: the
\* first marker of the response of the model call logged just before it
MarkerOfCall(w, i) ==
    (CHOOSE r \in ToolResponses : <<r.text>> = calls[w][i - 1].arg).tools[1]

FailureExplanations == {"Unknown tool", "No expression provided", "Invalid calculation"}

\* C17: an unknown tool, a calculate call without an expression and an
\* expression whose evaluation fails give (False, explanation); after a
\* failed tool call the working transcript ends with the raw response and a
\* User message that carries the explanation, and the next call of the turn
\* is a model call with exactly that transcript.
C17_ToolFailureNotFatal ==
    /\ execute_system_tool("bogus", None) = <<FALSE, "Unknown tool">>
    /\ execute_system_tool("calculate", None) = <<FALSE, "No expression provided">>
    /\ execute_system_tool("calculate", "1/0") = <<FALSE, "Invalid calculation">>
    /\ \A w \in SeqWorkers : \A i \in ToolCalls(w) :
          ~calls[w][i].ok
          => LET at == calls[w][i].at
                 marker == MarkerOfCall(w, i)
                 run == execute_system_tool(marker.name, marker.args)
             IN  /\ run[1] = FALSE
                 /\ run[2] \in FailureExplanations
                 /\ Len(temp_history[w]) >= at + 2
                 /\ temp_history[w][at + 1] = Msg("assistant", calls[w][i - 1].arg)
                 /\ temp_history[w][at + 2].role = "user"
                 /\ run[2] \in Range(temp_history[w][at + 2].content)
                 /\ IF i = Len(calls[w])
                    THEN /\ pc[w] = "loop"
                         /\ search_count[w] < max_search_attempts
                         /\ Len(temp_history[w]) = at + 2
                    ELSE /\ calls[w][i + 1].op = "chat"
                         /\ calls[w][i + 1].at = at + 2

\* a turn that went on to a further model call after a calculation failed
C17_Witness ==
    \E w \in SeqWorkers : \E i \in ToolCalls(w) :
        /\ ~calls[w][i].ok
        /\ MarkerOfCall(w, i) = ToolCall("calculate", "1/0")
        /\ i < Len(calls[w])
        /\ calls[w][i + 1].op = "chat"
        /\ pc[w] = "done"
        /\ result[w] = <<"plain answer">>

\* argument strings that are Python expressions but not numeric arithmetic:
\* a list and a tuple literal, a conditional expression, an attribute access
\* and a comparison
NotArithmetic == {"[1,2]", "(1,2)", "1 if 2 else 3", "(1).real", "1<2"}

\* C18: the calculate tool returns ok = false for every argument that is not
\* an expression of the numeric arithmetic grammar.
C18_CalculateRejectsNonArithmetic ==
    \A w \in SeqWorkers : \A i \in ToolCalls(w) :
        (/\ MarkerOfCall(w, i).name = "calculate"
         /\ MarkerOfCall(w, i).args \in NotArithmetic)
        => ~calls[w][i].ok

\* what the claim says of a web_search call that has returned: at most
\* retries attempts, every attempt before the last one failed, results end
\* the search at once, and None comes only after retries failed attempts
SearchContract ==
    /\ ws.attempt <= ws.retries
    /\ Len(ws.outcomes) = ws.attempt
    /\ \A i \in 1..(ws.attempt - 1) : ws.outcomes[i] \in {"empty", "throws"}
    /\ ws.ret \in {"None", "results text"}
    /\ ws.ret = "results text"
          => ws.attempt >= 1 /\ ws.outcomes[ws.attempt] = "results"
    /\ ws.ret = "None"
          => /\ ws.attempt = ws.retries
             /\ \A i \in 1..ws.attempt : ws.outcomes[i] \in {"empty", "throws"}

\* C16 as stated: every web_search call that has returned kept the contract.
C16_SearchRetriesThenFails ==
    ws.pc = "returned" => SearchContract

\* C16 amended: with the search provider available every returned call kept
\* the contract; without it web_search returns None and asks nothing.
C16_SearchRetriesWhenAvailable ==
    ws.pc = "returned"
    => IF WEB_SEARCH_AVAILABLE
       THEN SearchContract
       ELSE ws.ret = "None" /\ ws.attempt = 0

\* the default three attempts, one raising and two empty, then None
C16_Witness ==
    /\ WEB_SEARCH_AVAILABLE
    /\ ws.pc = "returned"
    /\ ws.retries = MAX_SEARCH_RETRIES
    /\ ws.outcomes = <<"throws", "empty", "empty">>
    /\ ws.ret = "None"

\* the messages of the committed pairs, in commit order
CommittedMessages ==
    [i \in 1..(2 * Len(committed)) |->
        committed[(i + 1) \div 2].pair[IF i % 2 = 1 THEN 1 ELSE 2]]

\* C12: the turns of separate workers do not overwrite each other's commits:
\* the persisted transcript is within the cap and ends with the pairs that
\* the turns committed since the last clear, each pair contiguous and the
\* pairs in commit order.
C12_CommittedPairsPersisted ==
    committed # <<>>
    => /\ HISTORY_FILE.state = "list"
       /\ Len(HISTORY_FILE.data) <= HistoryCap
       /\ Len(HISTORY_FILE.data) > Len(CommittedMessages)
       /\ LastN(HISTORY_FILE.data, Len(CommittedMessages)) = CommittedMessages

\* two turns run by two different workers have both committed, the second
\* one into a transcript at the cap
C12_Witness ==
    /\ Len(committed) = 2
    /\ committed[1].by # committed[2].by
    /\ committed[1].pair # committed[2].pair
    /\ Len(HISTORY_FILE.data) = HistoryCap
    /\ LastN(HISTORY_FILE.data, 4) = CommittedMessages

\* the input holds a trigger that has a concrete query builder
ConcreteFires(text) == \E t \in ConcreteTriggers : Contains(text, t)

\* C21: when a concrete trigger fires and search is available, the first
\* call of the turn is a search, the second is the first model call, and
\* after a successful search the transcript of that model call is the loaded
\* transcript, the new User message, the synthetic search request and the
\* search results.
C21_OneSearchBeforeFirstModelCall ==
    \A w \in SeqWorkers :
        (/\ OLLAMA_AVAILABLE
         /\ WEB_SEARCH_AVAILABLE
         /\ ConcreteFires(user_input[w])
         /\ ChatCalls(w) # {})
        => LET n == Len(loaded[w])
               query == calls[w][1].arg
           IN  /\ calls[w][1].op = "search"
               /\ query # NoText
               /\ calls[w][2].op = "chat"
               /\ temp_history[w][n + 1] = Msg("user", user_input[w])
               /\ IF calls[w][1].ok
                  THEN /\ calls[w][2].at = n + 3
                       /\ temp_history[w][n + 2] = AutoSearchRequest(query)
                       /\ temp_history[w][n + 3] = AutoSearchResults(query)
                  ELSE calls[w][2].at = n + 1

\* a first model call made after a successful pre-emptive weather search
C21_Witness ==
    \E w \in SeqWorkers :
        /\ user_input[w] = <<"weather", "Budapest">>
        /\ Len(calls[w]) >= 2
        /\ calls[w][1] = Call("search", <<"weather", "Budapest", "today">>, TRUE,
                               Len(loaded[w]) + 1)
        /\ calls[w][2].op = "chat"
        /\ calls[w][2].at = Len(loaded[w]) + 3

\* the turn of w ran its pre-emptive search: a search is logged before any
\* model call
SearchedFirst(w) == calls[w] # <<>> /\ calls[w][1].op = "search"

\* the turn of w is past the start of askAI
TurnStarted(w) == pc[w] \in {"loop", "dispatch", "done"}

\* for the turn of w: a pre-emptive search was made exactly when the input
\* contains a concrete trigger, and before the first model call of a turn
\* without one the search counter is 0
AutoSearchExactlyOnConcrete(w) ==
    /\ SearchedFirst(w) <=> ConcreteFires(user_input[w])
    /\ (~ConcreteFires(user_input[w]) /\ pc[w] = "loop" /\ ChatCalls(w) = {})
          => search_count[w] = 0

\* C22 as stated: a turn searches on its own exactly when its input contains
\* a concrete trigger.
C22_AutoSearchIffConcreteTrigger ==
    \A w \in SeqWorkers : TurnStarted(w) => AutoSearchExactlyOnConcrete(w)

\* C22 amended: the same with the backend and the search provider
\* available; without either of them no pre-emptive search is made.
C22_AutoSearchIffConcreteWhenAvailable ==
    \A w \in SeqWorkers :
        TurnStarted(w)
        => IF OLLAMA_AVAILABLE /\ WEB_SEARCH_AVAILABLE
           THEN AutoSearchExactlyOnConcrete(w)
           ELSE ~SearchedFirst(w)

\* an input whose first word is the ambiguous "latest" and whose second is
\* the concrete "news": the search for the news query was made
C22_Witness ==
    \E w \in SeqWorkers :
        /\ OLLAMA_AVAILABLE /\ WEB_SEARCH_AVAILABLE
        /\ user_input[w] = <<"latest", "news">>
        /\ SearchedFirst(w)
        /\ calls[w][1].arg = <<"latest", "news", "year">>
        /\ ChatCalls(w) # {}

\* C23: with no turn in flight, clear_history leaves exactly one message in
\* the persisted transcript: the System message with the rules of the
\* current configuration.
C23_ClearLeavesSystemOnly ==
    AllIdle
    => /\ ~clear_history_outcome.raised
       /\ clear_history_outcome.file = FileList(<<Msg("system", ConfiguredRules)>>)

\* the response that the model call at position i of the log of w returned
MarkerResponseOf(w, i) == CHOOSE r \in MarkerResponses : <<r.text>> = calls[w][i].arg

\* C24: every tool or search call of the loop directly follows the model
\* call whose response asked for it, so one response causes at most one
\* side effect; a tool call runs the first tool marker of the response, and
\* a search call runs the first search marker of a response without tool
\* markers.
C24_OneSideEffectPerResponse ==
    \A w \in SeqWorkers : \A i \in 2..Len(calls[w]) :
        calls[w][i].op # "chat"
        => /\ calls[w][i - 1].op = "chat"
           /\ LET r == MarkerResponseOf(w, i - 1)
              IN  IF calls[w][i].op = "tool"
                  THEN r.tools # <<>> /\ calls[w][i].arg = <<r.tools[1].name>>
                  ELSE /\ r.tools = <<>>
                       /\ r.searches # <<>>
                       /\ calls[w][i].arg = <<r.searches[1]>>

\* a turn in which a response with two search markers caused one search and
\* a response with search markers around a tool marker caused the tool call
C24_Witness ==
    \E w \in SeqWorkers : \E i, j \in 1..Len(calls[w]) :
        /\ i + 1 < j /\ j < Len(calls[w])
        /\ calls[w][i].arg = <<"SEARCH q2 TOOL date SEARCH q1">>
        /\ calls[w][i + 1] = Call("tool", <<"date">>, TRUE, calls[w][i].at)
        /\ calls[w][i + 2].op = "chat"
        /\ calls[w][j].arg = <<"SEARCH q1 SEARCH q2">>
        /\ calls[w][j + 1].op = "search"
        /\ calls[w][j + 1].arg = <<"q1">>

\* a missing config.yaml is written with the defaults, which are returned
MissingConfigGivesDefaults ==
    CONFIG_FILE.state = "missing"
    => /\ load_config(CurrentConfig).ret = DEFAULT_CONFIG
       /\ load_config(CurrentConfig).st.file.state = "document"
       /\ load_config(CurrentConfig).st.file.data = DEFAULT_CONFIG
       /\ load_config(CurrentConfig).st.cache = DEFAULT_CONFIG

\* C26 as stated: with the recorded modification time equal to the file's,
\* load_config returns the cache; with a changed modification time it
\* returns the new content of the file; a missing file gives the defaults.
C26_CachedByModificationTime ==
    /\ (CONFIG_FILE.state # "missing" /\ config_last_modified = CONFIG_FILE.mtime)
          => load_config(CurrentConfig).ret = config_cache
    /\ (/\ CONFIG_FILE.state # "missing"
        /\ config_last_modified # NeverModified
        /\ config_last_modified # CONFIG_FILE.mtime)
          => load_config(CurrentConfig).ret = CONFIG_FILE.data
    /\ MissingConfigGivesDefaults

\* C26 amended: an equal modification time gives the cache when the cache
\* is not empty; otherwise the file is read, and a document that is a
\* mapping is returned and cached, while an unparseable file, an empty
\* document and a document that is not a mapping give the defaults; a
\* missing file gives the defaults.
C26_CachedWhenNotEmpty ==
    /\ (/\ CONFIG_FILE.state # "missing"
        /\ config_last_modified = CONFIG_FILE.mtime
        /\ Truthy(config_cache))
          => /\ load_config(CurrentConfig).ret = config_cache
             /\ load_config(CurrentConfig).st = CurrentConfig
    /\ (/\ CONFIG_FILE.state # "missing"
        /\ ~(config_last_modified = CONFIG_FILE.mtime /\ Truthy(config_cache)))
          => IF CONFIG_FILE.state = "document" /\ IsMapping(CONFIG_FILE.data)
             THEN /\ load_config(CurrentConfig).ret = CONFIG_FILE.data
                  /\ load_config(CurrentConfig).st.cache = CONFIG_FILE.data
                  /\ load_config(CurrentConfig).st.last = CONFIG_FILE.mtime
             ELSE load_config(CurrentConfig).ret = DEFAULT_CONFIG
    /\ MissingConfigGivesDefaults

\* the defaults are cached, the user has written rules of their own into
\* config.yaml, and load_config is about to return the new rules
C26_Witness ==
    /\ config_cache = DEFAULT_CONFIG
    /\ CONFIG_FILE.state = "document"
    /\ CONFIG_FILE.data = CustomConfig
    /\ config_last_modified # CONFIG_FILE.mtime
    /\ turns > 0
    /\ load_config(CurrentConfig).ret = CustomConfig

\* a System message followed by whole User/Assistant pairs
WellPaired(t) ==
    /\ Len(t) % 2 = 1
    /\ t[1].role = "system"
    /\ \A i \in 2..Len(t) : t[i].role = IF i % 2 = 0 THEN "user" ELSE "assistant"

\* C27: over sequential turns and clears the persisted transcript is the
\* System message followed by whole User/Assistant pairs; a commit that
\* truncates drops whole pairs from the front, so the transcript ends with
\* the pair of the turn and what precedes it is a suffix of whole pairs of
\* what was loaded.
C27_WholePairsAlternate ==
    /\ HISTORY_FILE.state = "list" => WellPaired(HISTORY_FILE.data)
    /\ \A w \in SeqWorkers :
          LoopTurnDone(w)
          => LET data == HISTORY_FILE.data
                 dropped == Len(loaded[w]) + 2 - Len(data)
             IN  /\ dropped >= 0
                 /\ dropped % 2 = 0
                 /\ data[Len(data)].role = "assistant"
                 /\ \A i \in 2..Len(data) :
                       data[i] = (loaded[w] \o TurnPair(w))[i + dropped]

\* a commit into a transcript at the cap: the oldest pair was dropped
C27_Witness ==
    \E w \in SeqWorkers :
        /\ LoopTurnDone(w)
        /\ Len(loaded[w]) = HistoryCap
        /\ Len(HISTORY_FILE.data) = HistoryCap
        /\ HISTORY_FILE.data[2] = loaded[w][4]
        /\ WellPaired(HISTORY_FILE.data)

\* C28: the step that runs a tool, successful or not, leaves the search
\* counter unchanged and appends exactly two messages to the working
\* transcript: the raw response as an Assistant message, then a User message
\* with the result or the failure; the loop goes on.
C28_ToolRoundKeepsSearchBudget ==
    [][\A w \in SeqWorkers :
          (pc[w] = "dispatch" /\ response[w].tools # <<>>)
          => /\ search_count'[w] = search_count[w]
             /\ pc'[w] = "loop"
             /\ Len(temp_history'[w]) = Len(temp_history[w]) + 2
             /\ SubSeq(temp_history'[w], 1, Len(temp_history[w])) = temp_history[w]
             /\ temp_history'[w][Len(temp_history[w]) + 1] =
                    Msg("assistant", <<response[w].text>>)
             /\ temp_history'[w][Len(temp_history[w]) + 2].role = "user"
             /\ HISTORY_FILE' = HISTORY_FILE]_vars

\* after a counted pre-emptive search a tool round failed: the counter
\* still stands at one and two messages were appended
C28_Witness ==
    \E w \in SeqWorkers :
        /\ pc[w] = "loop"
        /\ search_count[w] = 1
        /\ ToolCalls(w) # {}
        /\ calls[w][Len(calls[w])].op = "tool"
        /\ ~calls[w][Len(calls[w])].ok
        /\ Len(temp_history[w]) = calls[w][Len(calls[w])].at + 2

\* what the backend and the search provider answered in a turn with call
\* log c: the reply and outcome of each model call, the outcome of each search
RECURSIVE Replies(_)
Replies(c) ==
    IF c = <<>>
    THEN <<>>
    ELSE (IF Head(c).op = "chat" THEN <<[reply |-> Head(c).arg, ok |-> Head(c).ok]>>
          ELSE IF Head(c).op = "search" THEN <<[reply |-> NoText, ok |-> Head(c).ok]>>
          ELSE <<>>)
         \o Replies(Tail(c))

\* two finished turns with the same input, the same loaded history and the
\* same answers from the backend
SameGivens(a, b) ==
    /\ a.input = b.input
    /\ a.loaded = b.loaded
    /\ Replies(a.calls) = Replies(b.calls)

\* C25: two finished turns of the window with the same input, the same
\* persisted state at their start and the same backend responses, one with a
\* stream callback and one without, made the same sequence of model, tool and
\* search calls, returned the same text and left the same history file.
C25_StreamSinkIsSideChannel ==
    \A a, b \in seen :
        (a.stream /\ ~b.stream /\ SameGivens(a, b))
        => /\ a.calls = b.calls
           /\ a.raised = b.raised
           /\ a.result = b.result
           /\ a.file = b.file

\* a streaming turn and a turn without streaming, both after the failed
\* pre-emptive search, got a tool request and then a plain answer
C25_Witness ==
    \E a, b \in seen :
        /\ a.stream /\ ~b.stream /\ SameGivens(a, b)
        /\ Len(a.calls) = 4
        /\ a.calls[1].op = "search"
        /\ a.calls[3].op = "tool"
        /\ a.result = <<"plain answer">>
        /\ a.file.state = "list" /\ Len(a.file.data) = 3

\* C29: when a turn that loaded more than the System message commits while
\* the file holds the System message alone (clear_history ran after the load),
\* the file it leaves holds the System message and the pair of the turn, and
\* none of the messages persisted before the clear.
C29_ClearNotUndoneByTurnInFlight ==
    [][\A w \in Workers :
          (/\ pc[w] \in {"loop", "dispatch"}
           /\ pc'[w] = "done"
           /\ Len(loaded[w]) > 1
           /\ HISTORY_FILE = FileList(<<ConfiguredSystemMessage>>))
          => HISTORY_FILE' =
                FileList(<<ConfiguredSystemMessage,
                           Msg("user", user_input[w]),
                           Msg("assistant", result'[w])>>)]_vars

\* the texts askAI returns in the streaming specification
StreamTexts == {<<"plain answer">>, ErrorText}

\* the chat window shows "[JARVIS]: text" followed by the blank line
Displayed(text) ==
    \E i \in 1..Len(chat_display) :
        /\ i + Len(text) + 1 <= Len(chat_display)
        /\ SubSeq(chat_display, i, i + Len(text) + 1) = Shown("JARVIS", text)

\* C30: whenever askAI has returned a text to a turn of the window, with the
\* streaming checkbox ticked or not, the chat window eventually shows that
\* text as a message of JARVIS.
C30_ReturnedTextReachesDisplay ==
    \A w \in SeqWorkers : \A text \in StreamTexts :
        (pc[w] = "done" /\ result[w] = text) ~> Displayed(text)

====
